---- MODULE Spec2Model ----
(***************************************************************************)
(* Model of the paginated search cursor of ngrams-rs (src/src/lib.rs):    *)
(* struct Pages and its async method Pages::next, together with the error *)
(* constructors and the decoding of the two response shapes.  One cursor  *)
(* is driven by one caller against a server that may answer anything.     *)
(* Pages::next is split at its three suspension points (.send().await,    *)
(* res.text().await, res.json().await); the code between two suspension   *)
(* points is one atomic step.                                             *)
(***************************************************************************)
EXTENDS Integers, Sequences, FiniteSets, TLC

\* ------------------------------------------------------------------ bounds
\* Largest max_page_count a cursor is created with.
MaxBudget == 3
\* Number of Pages::next calls the caller makes on the cursor.
MaxCalls == 5

\* Calls of Pages::next on each cursor when two cursors are polled in turn.
MaxPairCalls == 2

\* Calls a caller makes that uses both a cursor and the single-shot endpoints.
MaxClientCalls == 2

\* ------------------------------------------------------- values and inputs
\* Option<T>::None, for the continuation token and for optional JSON fields.
None == "None"

\* Continuation tokens the server may hand out (nextPageToken).
Tokens == {"tokA", "tokB"}

\* enum Corpus and Corpus::label.
Corpus == {"English", "German", "Russian"}

label(corpus) ==
    CASE corpus = "English" -> "eng"
      [] corpus = "German" -> "ger"
      [] corpus = "Russian" -> "rus"

\* Queries the caller searches for.
Queries == {"hello * *"}

\* enum QueryTokenKind, as serialized (SCREAMING_SNAKE_CASE).
QueryTokenKind ==
    {"TERM", "STAR", "STARSTAR", "STAR_ADJ", "STAR_ADP", "STAR_ADV", "STAR_CONJ",
     "STAR_DET", "STAR_NOUN", "STAR_NUM", "STAR_PRON", "STAR_PRT", "STAR_VERB",
     "SENTENCE_START", "SENTENCE_END", "SLASH", "PREFIX", "TERM_GROUP"}

\* enum NgramTokenKind, as serialized.
NgramTokenKind ==
    {"TERM", "TAGGED_AS_ADJ", "TAGGED_AS_ADP", "TAGGED_AS_ADV", "TAGGED_AS_CONJ",
     "TAGGED_AS_DET", "TAGGED_AS_NOUN", "TAGGED_AS_NUM", "TAGGED_AS_PRON",
     "TAGGED_AS_PRT", "TAGGED_AS_VERB", "SENTENCE_START", "SENTENCE_END"}

\* Variant of ErrorCode: the last variant of the enum is missing.
ErrorCode_short ==
    {"INVALID_PARAMETER.LIMIT", "INVALID_QUERY.BAD_ALTERNATION",
     "INVALID_QUERY.BAD_COMPLETION", "INVALID_QUERY.BAD_TERM_GROUP",
     "INVALID_QUERY.NO_TERM", "INVALID_QUERY.TOO_EXPENSIVE"}

\* enum ErrorCode, as serialized: the codes the client can decode.
ErrorCode ==
    {"INVALID_PARAMETER.LIMIT", "INVALID_QUERY.BAD_ALTERNATION",
     "INVALID_QUERY.BAD_COMPLETION", "INVALID_QUERY.BAD_TERM_GROUP",
     "INVALID_QUERY.NO_TERM", "INVALID_QUERY.TOO_EXPENSIVE",
     "INVALID_QUERY.TOO_MANY_TOKENS"}

\* The server's closed enumeration of error codes: the seven that enum
\* ErrorCode declares ("Subset of error code a user query could generate") and
\* the four it leaves out.
ServerErrorCode ==
    {"INVALID_PARAMETER.LIMIT", "INVALID_PARAMETER.START",
     "INVALID_QUERY.BAD_ALTERNATION", "INVALID_QUERY.BAD_COMPLETION",
     "INVALID_QUERY.BAD_TERM_GROUP", "INVALID_QUERY.NO_TERM",
     "INVALID_QUERY.TOO_EXPENSIVE", "INVALID_QUERY.TOO_MANY_TOKENS",
     "INVALID_REQUEST_BODY", "INVALID_ENCODING", "MISSING_PARAMETER.QUERY"}

\* impl Default for SearchOptions.
DefaultOptions ==
    [max_page_size |-> 100, max_page_count |-> 10,
     case_sensitive |-> FALSE, collapse_result |-> FALSE,
     exclude_punctuation_marks |-> FALSE, exclude_sentence_boundary_tags |-> FALSE,
     dont_interpret_query_operators |-> FALSE, dont_tokenize_query_terms |-> FALSE,
     dont_unicode_normalize_query |-> FALSE]

\* The option sets the caller passes to Client::search, apart from the budget:
\* the defaults, an out-of-range page size, and two modifiers switched on.
OptionChoices ==
    {DefaultOptions,
     [DefaultOptions EXCEPT !.max_page_size = 101],
     [DefaultOptions EXCEPT !.case_sensitive = TRUE,
                            !.dont_unicode_normalize_query = TRUE]}

\* Every combination of the seven modifiers, with the default page size.
AllOptions ==
    {[max_page_size |-> 100, max_page_count |-> 10,
      case_sensitive |-> cs, collapse_result |-> cr,
      exclude_punctuation_marks |-> ep, exclude_sentence_boundary_tags |-> es,
      dont_interpret_query_operators |-> ri, dont_tokenize_query_terms |-> rt,
      dont_unicode_normalize_query |-> rn] :
        cs \in BOOLEAN, cr \in BOOLEAN, ep \in BOOLEAN, es \in BOOLEAN,
        ri \in BOOLEAN, rt \in BOOLEAN, rn \in BOOLEAN}

\* Variant of to_flags: the codes of two modifiers in the other order.
to_flags_swapped(o) ==
    (IF o.case_sensitive THEN "cs" ELSE "")
    \o (IF o.collapse_result THEN "cr" ELSE "")
    \o (IF o.exclude_punctuation_marks THEN "ep" ELSE "")
    \o (IF o.exclude_sentence_boundary_tags THEN "es" ELSE "")
    \o (IF o.dont_tokenize_query_terms THEN "rt" ELSE "")
    \o (IF o.dont_interpret_query_operators THEN "ri" ELSE "")
    \o (IF o.dont_unicode_normalize_query THEN "rn" ELSE "")

\* Variant of to_flags: two modifiers with the same code.
to_flags_samecode(o) ==
    (IF o.case_sensitive THEN "cs" ELSE "")
    \o (IF o.collapse_result THEN "cr" ELSE "")
    \o (IF o.exclude_punctuation_marks THEN "ep" ELSE "")
    \o (IF o.exclude_sentence_boundary_tags THEN "es" ELSE "")
    \o (IF o.dont_interpret_query_operators THEN "ri" ELSE "")
    \o (IF o.dont_tokenize_query_terms THEN "ri" ELSE "")
    \o (IF o.dont_unicode_normalize_query THEN "rn" ELSE "")

\* SearchOptions::to_flags.
to_flags(o) ==
    (IF o.case_sensitive THEN "cs" ELSE "")
    \o (IF o.collapse_result THEN "cr" ELSE "")
    \o (IF o.exclude_punctuation_marks THEN "ep" ELSE "")
    \o (IF o.exclude_sentence_boundary_tags THEN "es" ELSE "")
    \o (IF o.dont_interpret_query_operators THEN "ri" ELSE "")
    \o (IF o.dont_tokenize_query_terms THEN "rt" ELSE "")
    \o (IF o.dont_unicode_normalize_query THEN "rn" ELSE "")

\* ------------------------------------------------------- response bodies
\* A response body is the text of a JSON object, written as the record of its
\* top-level members; text that is no JSON object is [raw |-> text].
EmptyPayload == [raw |-> ""]

QT3 == <<[kind |-> "TERM", text |-> "hello"], [kind |-> "STAR", text |-> "*"],
         [kind |-> "STAR", text |-> "*"]>>

NgramJsonA ==
    [id |-> "a1", absTotalMatchCount |-> 7, relTotalMatchCount |-> 1,
     tokens |-> <<[kind |-> "TERM", text |-> "hello"],
                  [kind |-> "TERM", text |-> "world", inserted |-> TRUE]>>]

NgramJsonB ==
    [id |-> "b2", absTotalMatchCount |-> 3, relTotalMatchCount |-> 2,
     tokens |-> <<[kind |-> "TAGGED_AS_NOUN", text |-> "day", completed |-> TRUE]>>,
     abstract |-> TRUE]

PageBodies ==
    {[queryTokens |-> QT3, ngrams |-> <<NgramJsonA>>, nextPageToken |-> t] : t \in Tokens}
    \cup {[queryTokens |-> QT3, ngrams |-> <<NgramJsonB>>]}

ErrorBodies ==
    {[error |-> [code |-> "INVALID_PARAMETER.LIMIT"]],
     [error |-> [code |-> "INVALID_QUERY.NO_TERM"], queryTokens |-> QT3]}

MalformedBodies ==
    {[raw |-> "<html>"],
     [ngrams |-> <<NgramJsonA>>, nextPageToken |-> "tokA"],
     [queryTokens |-> <<[kind |-> "BOGUS", text |-> "x"]>>, ngrams |-> <<>>]}

\* The error objects of a 400 response, one per code of the server's
\* enumeration, with and without echoed query tokens.
CodeBodies ==
    {[error |-> [code |-> c]] : c \in ServerErrorCode}
    \cup {[error |-> [code |-> c], queryTokens |-> QT3] : c \in ServerErrorCode}

Bodies == PageBodies \cup ErrorBodies \cup MalformedBodies

\* HTTP statuses the server may answer with.
StatusCodes == {200, 400, 404, 500}

\* ---------------------------------------------------------------- decoding
\* A member of a JSON object, or the default serde uses when it is missing.
Member(j, name, default) == IF name \in DOMAIN j THEN j[name] ELSE default

HasMembers(j, names) == names \subseteq DOMAIN j

\* Deserialize for QueryTokenView / QueryToken: both members are required
\* and kind must be a label of QueryTokenKind.
ValidQueryToken(j) == HasMembers(j, {"kind", "text"}) /\ j.kind \in QueryTokenKind

DecodeQueryToken(j) == [kind |-> j.kind, text |-> j.text]

\* Deserialize for NgramTokenView: inserted and completed are #[serde(default)].
ValidNgramToken(j) == HasMembers(j, {"kind", "text"}) /\ j.kind \in NgramTokenKind

DecodeNgramToken(j) ==
    [kind |-> j.kind, text |-> j.text,
     inserted |-> Member(j, "inserted", FALSE),
     completed |-> Member(j, "completed", FALSE)]

\* Deserialize for NgramLiteView (camelCase members): abstract is #[serde(default)].
ValidNgramLite(j) ==
    /\ HasMembers(j, {"id", "absTotalMatchCount", "relTotalMatchCount", "tokens"})
    /\ \A i \in DOMAIN j.tokens : ValidNgramToken(j.tokens[i])

DecodeNgramLite(j) ==
    [id |-> j.id,
     abs_total_match_count |-> j.absTotalMatchCount,
     rel_total_match_count |-> j.relTotalMatchCount,
     tokens |-> [i \in DOMAIN j.tokens |-> DecodeNgramToken(j.tokens[i])],
     abstract |-> Member(j, "abstract", FALSE)]

\* serde_json::from_str::<SearchResult>: Ok iff the text is a JSON object with
\* the members queryTokens and ngrams, each element of which decodes;
\* nextPageToken is an Option and may be missing; other members are ignored.
SearchResultOk(body) ==
    /\ HasMembers(body, {"queryTokens", "ngrams"})
    /\ \A i \in DOMAIN body.queryTokens : ValidQueryToken(body.queryTokens[i])
    /\ \A i \in DOMAIN body.ngrams : ValidNgramLite(body.ngrams[i])

\* Variant of SearchResult: only the first query token is kept.
SearchResult_firsttoken(body) ==
    [query_tokens |-> [i \in DOMAIN body.queryTokens \cap {1} |-> DecodeQueryToken(body.queryTokens[i])],
     ngrams |-> [i \in DOMAIN body.ngrams |-> DecodeNgramLite(body.ngrams[i])],
     next_page_token |-> Member(body, "nextPageToken", None)]

SearchResult(body) ==
    [query_tokens |-> [i \in DOMAIN body.queryTokens |-> DecodeQueryToken(body.queryTokens[i])],
     ngrams |-> [i \in DOMAIN body.ngrams |-> DecodeNgramLite(body.ngrams[i])],
     next_page_token |-> Member(body, "nextPageToken", None)]

\* res.json::<ErrorResult>(): Ok iff the body is a JSON object with a member
\* error whose code is a label of ErrorCode; queryTokens is an Option.
ErrorResultOk(body) ==
    /\ HasMembers(body, {"error"})
    /\ HasMembers(body.error, {"code"})
    /\ body.error.code \in ErrorCode
    /\ ("queryTokens" \in DOMAIN body =>
            \A i \in DOMAIN body.queryTokens : ValidQueryToken(body.queryTokens[i]))

\* Variant of ErrorResult: the echoed query tokens are dropped from the list.
ErrorResult_emptytokens(body) ==
    [error |-> [code |-> body.error.code],
     query_tokens |-> IF "queryTokens" \in DOMAIN body THEN <<>> ELSE None]

ErrorResult(body) ==
    [error |-> [code |-> body.error.code],
     query_tokens |-> IF "queryTokens" \in DOMAIN body
                      THEN [i \in DOMAIN body.queryTokens |-> DecodeQueryToken(body.queryTokens[i])]
                      ELSE None]

\* ------------------------------------------------- views and owned records
\* A JSON string literal of a raw body: the string it denotes, and whether it
\* is written with an escape sequence (as in "a\u0031" for a1).
JStr(s) == [value |-> s, escaped |-> FALSE]

JEsc(s) == [value |-> s, escaped |-> TRUE]

\* Deserialize for Cow<str> under #[serde(borrow)]: a literal without escapes
\* is borrowed from the body, one with escapes is unescaped into a String.
Cow(s) == [cow |-> IF s.escaped THEN "Owned" ELSE "Borrowed", str |-> s.value]

\* Deserialize for &str: only a literal without escapes can be borrowed.
BorrowedStrOk(s) == ~s.escaped

\* Raw query tokens and n-grams, with their strings as literals.
RawQueryTokenLists ==
    {<<>>,
     <<[kind |-> "TERM", text |-> JStr("hello")], [kind |-> "STAR", text |-> JStr("*")]>>,
     <<[kind |-> "STAR", text |-> JStr("*")], [kind |-> "TERM", text |-> JEsc("a\"b")]>>,
     <<[kind |-> "BOGUS", text |-> JStr("x")]>>}

RawNgramA ==
    [id |-> JStr("a1"), absTotalMatchCount |-> 7, relTotalMatchCount |-> 1,
     tokens |-> <<[kind |-> "TERM", text |-> JStr("hello")],
                  [kind |-> "TERM", text |-> JEsc("wor\"ld"), inserted |-> TRUE]>>]

RawNgramB ==
    [id |-> JStr("b2"), absTotalMatchCount |-> 3, relTotalMatchCount |-> 2,
     tokens |-> <<[kind |-> "TAGGED_AS_NOUN", text |-> JStr("day"), completed |-> TRUE]>>,
     abstract |-> TRUE]

RawNgramEscapedId == [RawNgramA EXCEPT !.id = JEsc("a1")]

RawNgramNoTokens ==
    [id |-> JStr("c3"), absTotalMatchCount |-> 1, relTotalMatchCount |-> 1]

RawNgramLists ==
    {<<>>, <<RawNgramA>>, <<RawNgramB>>, <<RawNgramA, RawNgramB>>, <<RawNgramB, RawNgramA>>,
     <<RawNgramB, RawNgramEscapedId>>, <<RawNgramNoTokens>>}

\* The raw bodies handed to serde_json::from_str.
RawBodies ==
    {[queryTokens |-> qts, ngrams |-> ngs] : qts \in RawQueryTokenLists, ngs \in RawNgramLists}
    \cup {[raw |-> "<html>"], [ngrams |-> <<RawNgramA>>]}

\* Deserialize for QueryTokenView and its From into QueryToken.
QueryTokenViewOk(j) == HasMembers(j, {"kind", "text"}) /\ j.kind \in QueryTokenKind

QueryTokenView(j) == [kind |-> j.kind, text |-> Cow(j.text)]

QueryTokenFrom(token) == [kind |-> token.kind, text |-> token.text.str]

\* Deserialize for QueryToken: text is a String.
QueryTokenOk(j) == HasMembers(j, {"kind", "text"}) /\ j.kind \in QueryTokenKind

QueryToken(j) == [kind |-> j.kind, text |-> j.text.value]

\* Deserialize for NgramTokenView and its From into NgramToken.
NgramTokenViewOk(j) == HasMembers(j, {"kind", "text"}) /\ j.kind \in NgramTokenKind

NgramTokenView(j) ==
    [kind |-> j.kind, text |-> Cow(j.text),
     inserted |-> Member(j, "inserted", FALSE),
     completed |-> Member(j, "completed", FALSE)]

NgramTokenFrom(token) ==
    [kind |-> token.kind, text |-> token.text.str,
     inserted |-> token.inserted, completed |-> token.completed]

\* Deserialize for NgramToken: inserted and completed are #[serde(default)].
NgramTokenOk(j) == HasMembers(j, {"kind", "text"}) /\ j.kind \in NgramTokenKind

NgramToken(j) ==
    [kind |-> j.kind, text |-> j.text.value,
     inserted |-> Member(j, "inserted", FALSE),
     completed |-> Member(j, "completed", FALSE)]

\* Deserialize for NgramLiteView: id is a &str, borrowed from the body.
NgramLiteViewOk(j) ==
    /\ HasMembers(j, {"id", "absTotalMatchCount", "relTotalMatchCount", "tokens"})
    /\ BorrowedStrOk(j.id)
    /\ \A i \in DOMAIN j.tokens : NgramTokenViewOk(j.tokens[i])

NgramLiteView(j) ==
    [id |-> j.id.value,
     abs_total_match_count |-> j.absTotalMatchCount,
     rel_total_match_count |-> j.relTotalMatchCount,
     tokens |-> [i \in DOMAIN j.tokens |-> NgramTokenView(j.tokens[i])],
     abstract |-> Member(j, "abstract", FALSE)]

NgramLiteFrom(ngram) ==
    [id |-> ngram.id,
     abs_total_match_count |-> ngram.abs_total_match_count,
     rel_total_match_count |-> ngram.rel_total_match_count,
     tokens |-> [i \in DOMAIN ngram.tokens |-> NgramTokenFrom(ngram.tokens[i])],
     abstract |-> ngram.abstract]

\* Deserialize for NgramLite: id is a String.
NgramLiteOk(j) ==
    /\ HasMembers(j, {"id", "absTotalMatchCount", "relTotalMatchCount", "tokens"})
    /\ \A i \in DOMAIN j.tokens : NgramTokenOk(j.tokens[i])

NgramLite(j) ==
    [id |-> j.id.value,
     abs_total_match_count |-> j.absTotalMatchCount,
     rel_total_match_count |-> j.relTotalMatchCount,
     tokens |-> [i \in DOMAIN j.tokens |-> NgramToken(j.tokens[i])],
     abstract |-> Member(j, "abstract", FALSE)]

\* serde_json::from_str::<PageView>.
PageViewOk(body) ==
    /\ HasMembers(body, {"queryTokens", "ngrams"})
    /\ \A i \in DOMAIN body.queryTokens : QueryTokenViewOk(body.queryTokens[i])
    /\ \A i \in DOMAIN body.ngrams : NgramLiteViewOk(body.ngrams[i])

PageView(body) ==
    [query_tokens |-> [i \in DOMAIN body.queryTokens |-> QueryTokenView(body.queryTokens[i])],
     ngrams |-> [i \in DOMAIN body.ngrams |-> NgramLiteView(body.ngrams[i])]]

\* PageView::to_page, which is Page::from(&PageView).
to_page(page) ==
    [query_tokens |-> [i \in DOMAIN page.query_tokens |-> QueryTokenFrom(page.query_tokens[i])],
     ngrams |-> [i \in DOMAIN page.ngrams |-> NgramLiteFrom(page.ngrams[i])]]

\* serde_json::from_str::<Page>.
PageOk(body) ==
    /\ HasMembers(body, {"queryTokens", "ngrams"})
    /\ \A i \in DOMAIN body.queryTokens : QueryTokenOk(body.queryTokens[i])
    /\ \A i \in DOMAIN body.ngrams : NgramLiteOk(body.ngrams[i])

Page(body) ==
    [query_tokens |-> [i \in DOMAIN body.queryTokens |-> QueryToken(body.queryTokens[i])],
     ngrams |-> [i \in DOMAIN body.ngrams |-> NgramLite(body.ngrams[i])]]

\* ------------------------------------------------- single-shot resources
\* The length of a per-year array of total_counts.
TOTAL_COUNTS_BY_YEAR_LEN == 550

\* The ids the caller passes to get_ngram.
NgramIds == {"a1", "zz"}

\* Bodies of the {id} resource.
NgramJsonFull ==
    [id |-> "a1", absTotalMatchCount |-> 7, relTotalMatchCount |-> 1,
     tokens |-> <<[kind |-> "TERM", text |-> "hello"],
                  [kind |-> "TERM", text |-> "world", inserted |-> TRUE]>>,
     stats |-> <<[year |-> 1880, absMatchCount |-> 4, relMatchCount |-> 2],
                 [year |-> 1900, absMatchCount |-> 3, relMatchCount |-> 1]>>]

NgramBodies == {NgramJsonFull, NgramJsonA, [raw |-> "<html>"]}

\* Bodies of the info resource: five year buckets, or four.
CorpusStatJson(b) ==
    [numNgrams |-> 10 * b, minYear |-> 1470, maxYear |-> 2019,
     minMatchCount |-> b, maxMatchCount |-> 100 * b,
     minTotalMatchCount |-> 40 + b, maxTotalMatchCount |-> 1000 * b]

CorpusInfoJson(n) ==
    [name |-> "English", label |-> "eng", stats |-> [b \in 1..n |-> CorpusStatJson(b)]]

CorpusInfoBodies == {CorpusInfoJson(5), CorpusInfoJson(4), [raw |-> "<html>"]}

\* Bodies of the total_counts resource: the array of bucket b has lens[b]
\* entries, which differ from place to place and from bucket to bucket.
CountsJson(n, b) == [i \in 1..n |-> (i * (b + 1)) % 1000]

TotalCountsJson(lens) ==
    [minYear |-> 1470, maxYear |-> 2019,
     matchCounts |-> [b \in DOMAIN lens |-> CountsJson(lens[b], b)]]

TotalCountsLens ==
    LET n == TOTAL_COUNTS_BY_YEAR_LEN IN
    {<<n, n, n, n, n>>, <<n, n, n - 1, n, n>>, <<n + 1, n, n, n, n>>,
     <<n, n, n, n, 0>>, <<n, n, n, n>>}

TotalCountsBodies == {TotalCountsJson(lens) : lens \in TotalCountsLens} \cup {[raw |-> "<html>"]}

\* Deserialize for NgramStat (camelCase members).
ValidNgramStat(j) == HasMembers(j, {"year", "absMatchCount", "relMatchCount"})

DecodeNgramStat(j) ==
    [year |-> j.year, abs_match_count |-> j.absMatchCount, rel_match_count |-> j.relMatchCount]

\* Deserialize for Ngram (camelCase members): every member is required.
NgramOk(j) ==
    /\ HasMembers(j, {"id", "absTotalMatchCount", "relTotalMatchCount", "tokens", "stats"})
    /\ \A i \in DOMAIN j.tokens : ValidNgramToken(j.tokens[i])
    /\ \A i \in DOMAIN j.stats : ValidNgramStat(j.stats[i])

Ngram(j) ==
    [id |-> j.id,
     abs_total_match_count |-> j.absTotalMatchCount,
     rel_total_match_count |-> j.relTotalMatchCount,
     tokens |-> [i \in DOMAIN j.tokens |-> DecodeNgramToken(j.tokens[i])],
     stats |-> [i \in DOMAIN j.stats |-> DecodeNgramStat(j.stats[i])]]

\* Deserialize for CorpusStat (camelCase members).
ValidCorpusStat(j) ==
    HasMembers(j, {"numNgrams", "minYear", "maxYear", "minMatchCount", "maxMatchCount",
                   "minTotalMatchCount", "maxTotalMatchCount"})

DecodeCorpusStat(j) ==
    [num_ngrams |-> j.numNgrams, min_year |-> j.minYear, max_year |-> j.maxYear,
     min_match_count |-> j.minMatchCount, max_match_count |-> j.maxMatchCount,
     min_total_match_count |-> j.minTotalMatchCount,
     max_total_match_count |-> j.maxTotalMatchCount]

\* Deserialize for CorpusInfo: stats is [CorpusStat; 5].
CorpusInfoOk(j) ==
    /\ HasMembers(j, {"name", "label", "stats"})
    /\ Len(j.stats) = 5
    /\ \A i \in DOMAIN j.stats : ValidCorpusStat(j.stats[i])

CorpusInfo(j) ==
    [name |-> j.name, label |-> j.label,
     stats |-> [i \in DOMAIN j.stats |-> DecodeCorpusStat(j.stats[i])]]

\* TotalCountsByYear::deserialize: invalid_length unless the Vec<u64> has
\* TOTAL_COUNTS_BY_YEAR_LEN entries, which are then copied in order.
ValidTotalCountsByYear(a) == Len(a) = TOTAL_COUNTS_BY_YEAR_LEN

TotalCountsByYear(a) == [i \in 1..TOTAL_COUNTS_BY_YEAR_LEN |-> a[i]]

\* Deserialize for TotalCounts (camelCase members): match_counts is
\* [TotalCountsByYear; 5].
TotalCountsOk(j) ==
    /\ HasMembers(j, {"minYear", "maxYear", "matchCounts"})
    /\ Len(j.matchCounts) = 5
    /\ \A i \in DOMAIN j.matchCounts : ValidTotalCountsByYear(j.matchCounts[i])

TotalCounts(j) ==
    [min_year |-> j.minYear, max_year |-> j.maxYear,
     match_counts |-> [i \in DOMAIN j.matchCounts |-> TotalCountsByYear(j.matchCounts[i])]]

\* ------------------------------------------------------------------ errors
\* The sources an Error boxes.
ReqwestError(what) == [type |-> "reqwest::Error", what |-> what]

SerdeJsonError == [type |-> "serde_json::Error"]

BadInputError(code, query_tokens) ==
    [type |-> "BadInputError", code |-> code, query_tokens |-> query_tokens]

UnexpectedStatusCode(code) == [type |-> "UnexpectedStatusCode", code |-> code]

\* Error::new.
NewError(kind, source) == [kind |-> kind, source |-> source]

\* Variant of Error::connection: the kind of Error::exception's documentation.
connection_as_exception(err) == NewError("Exception", err)

\* Error::connection.
connection(err) == NewError("Connection", err)

\* Error::exception: the code builds the error with ErrorKind::Connection.
exception(err) == NewError("Connection", err)

\* Variant of Error::bad_input: the kind of Error::connection.
bad_input_as_connection(err) == NewError("Connection", err)

\* Error::bad_input.
bad_input(err) == NewError("BadInput", err)

\* Error::unexpected_status_code.
unexpected_status_code(code) == exception(UnexpectedStatusCode(code))

\* Error::into_bad_input_error: source.unwrap().downcast::<BadInputError>()
\* .unwrap() gives the boxed BadInputError, and panics on any other source.
into_bad_input_error(err) ==
    IF err.source.type = "BadInputError"
    THEN [tag |-> "Ok", value |-> err.source]
    ELSE [tag |-> "Panic"]

\* ------------------------------------------------------------------- state
VARIABLES
    \* struct Pages (the client is stateless and left out)
    query,          \* Pages::query
    corpus,         \* Pages::corpus
    options,        \* Pages::options; options.max_page_count is the remaining budget
    payload,        \* Pages::payload, the raw body backing the last page view
    next,           \* Pages::next, the stored continuation token
    \* the pending call of Pages::next
    pc,             \* "idle", or the suspension point: "send", "text", "json"; "panicked"
    resp,           \* the response whose body is being awaited
    result,         \* what the last call of Pages::next returned
    \* the caller's and the server's record of what happened
    calls,          \* number of calls of Pages::next so far
    sent,           \* number of HTTP requests issued so far
    lastReq,        \* the last request issued
    pre,            \* budget, token and payload when the last call began
    outcome,        \* the branch of Pages::next the last call ended in
    prevOutcome,    \* the branch the call before the last one ended in
    budget0,        \* the max_page_count the cursor was created with
    ok_pages,       \* number of calls that returned Some(Ok(page))
    lastPageToken,  \* next_page_token of the last page returned (None before any)
    \* a second cursor made of the same client
    peer            \* the fields and the record of the cursor that is not being polled

cursor == <<query, corpus, options, payload, next>>

vars == <<query, corpus, options, payload, next, pc, resp, result,
          calls, sent, lastReq, pre, outcome, prevOutcome, budget0, ok_pages,
          lastPageToken, peer>>

\* No second cursor was made.
NoPeer == [id |-> 0]

NoResp == [status |-> 0, body |-> EmptyPayload]

NoReq == [url |-> "", params |-> <<>>]

Snapshot == [max_page_count |-> options.max_page_count, next |-> next, payload |-> payload]

\* Client::search and Pages::new: the payload starts empty and no token is stored.
Init ==
    /\ query \in Queries
    /\ corpus \in Corpus
    /\ \E o \in OptionChoices, b \in 0..MaxBudget :
           options = [o EXCEPT !.max_page_count = b]
    /\ payload = EmptyPayload
    /\ next = None
    /\ pc = "idle"
    /\ resp = NoResp
    /\ result = [tag |-> "NoCall"]
    /\ calls = 0
    /\ sent = 0
    /\ lastReq = NoReq
    /\ pre = Snapshot
    /\ outcome = "nocall"
    /\ prevOutcome = "nocall"
    /\ budget0 = options.max_page_count
    /\ ok_pages = 0
    /\ lastPageToken = None
    /\ peer = NoPeer

\* --------------------------------------------------------------- the request
\* Variants of the early return: never taken; taken one page too soon.
IsExhausted_never == FALSE

IsExhausted_offbyone == options.max_page_count <= 1

\* Variant of the early return: taken below zero only.
IsExhausted_negative == options.max_page_count < 0

\* The early return of Pages::next.
IsExhausted == options.max_page_count = 0

\* The parameter list of Pages::next: query, limit, flags unless empty, start
\* when a token is stored.
BuildParams ==
    LET base == << <<"query", query>>, <<"limit", ToString(options.max_page_size)>> >>
        flags == to_flags(options)
        withFlags == IF flags # "" THEN Append(base, <<"flags", flags>>) ELSE base
    IN  IF next # None THEN Append(withFlags, <<"start", next>>) ELSE withFlags

\* internal::get(client, corpus, "search").query(&params); BASE_URL is fixed.
SearchRequest == [url |-> label(corpus) \o "/search", params |-> BuildParams]

\* ------------------------------------------------------- the cursor's update
\* Variants of the budget update: no decrement with a token; a decrement
\* instead of the reset without one.
CountAfterPage_nodec(token) ==
    IF token # None THEN options.max_page_count ELSE 0

CountAfterPage_dec(token) == options.max_page_count - 1

\* The budget after a page that decoded: one less with a token, zero without.
\* The u32 is kept modulo 2^32 by its representative: below zero means wrapped.
CountAfterPage(token) ==
    IF token # None THEN options.max_page_count - 1 ELSE 0

\* Variant of the token update: the token of the page is not stored.
NextAfterPage_stale(token) == IF token # None THEN next ELSE None

\* Variant of the token update: a page without a token leaves the old one.
NextAfterPage_uncleared(token) == IF token # None THEN token ELSE next

\* The stored token after a page that decoded.
NextAfterPage(token) == IF token # None THEN token ELSE None

\* Variant of the buffer update: the text is not stored.
PayloadAfterText_keep(text) == payload

\* The buffer once the body text has arrived (before it is decoded).
PayloadAfterText(text) == text

\* -------------------------------------------------------------------- steps
\* Pages::next up to .send().await: return None when exhausted, else build the
\* parameters and issue the request.
NextCall ==
    /\ UNCHANGED peer
    /\ pc = "idle"
    /\ calls < MaxCalls
    /\ calls' = calls + 1
    /\ pre' = Snapshot
    /\ prevOutcome' = outcome
    /\ IF IsExhausted
       THEN /\ result' = [tag |-> "None"]
            /\ outcome' = "none"
            /\ UNCHANGED <<pc, sent, lastReq>>
       ELSE /\ pc' = "send"
            /\ sent' = sent + 1
            /\ lastReq' = SearchRequest
            /\ result' = [tag |-> "Pending"]
            /\ outcome' = "pending"
    /\ UNCHANGED <<cursor, resp, budget0, ok_pages, lastPageToken>>

\* Variant of the step below: the request is sent again after a failure.
SendFails_retry ==
    /\ UNCHANGED peer
    /\ pc = "send"
    /\ sent < MaxCalls
    /\ sent' = sent + 1
    /\ UNCHANGED <<cursor, pc, resp, result, calls, lastReq, pre, outcome, prevOutcome,
                   budget0, ok_pages, lastPageToken>>

\* .send().await yields Err: Some(Err(Error::connection(err))).
SendFails ==
    /\ UNCHANGED peer
    /\ pc = "send"
    /\ pc' = "idle"
    /\ result' = [tag |-> "Err", err |-> connection(ReqwestError("send"))]
    /\ outcome' = "transport"
    /\ UNCHANGED <<cursor, resp, calls, sent, lastReq, pre, prevOutcome, budget0, ok_pages,
                   lastPageToken>>

\* Variant of the step below: the buffer is overwritten as soon as the response
\* arrives, before its body has been read.
RecvResponse_early(status, body) ==
    /\ UNCHANGED peer
    /\ pc = "send"
    /\ payload' = body
    /\ IF status = 200
       THEN /\ pc' = "text"
            /\ resp' = [status |-> status, body |-> body]
            /\ UNCHANGED <<result, outcome>>
       ELSE IF status = 400
       THEN /\ pc' = "json"
            /\ resp' = [status |-> status, body |-> body]
            /\ UNCHANGED <<result, outcome>>
       ELSE /\ pc' = "idle"
            /\ result' = [tag |-> "Err", err |-> unexpected_status_code(status)]
            /\ outcome' = "status"
            /\ UNCHANGED resp
    /\ UNCHANGED <<query, corpus, options, next, calls, sent, lastReq, pre, prevOutcome,
                   budget0, ok_pages, lastPageToken>>

\* Variant of the step below: a status without an arm of its own resets the
\* buffer and the token.
RecvResponse_reset(status, body) ==
    /\ UNCHANGED peer
    /\ pc = "send"
    /\ IF status = 200
       THEN /\ pc' = "text"
            /\ resp' = [status |-> status, body |-> body]
            /\ UNCHANGED <<result, outcome, payload, next>>
       ELSE IF status = 400
       THEN /\ pc' = "json"
            /\ resp' = [status |-> status, body |-> body]
            /\ UNCHANGED <<result, outcome, payload, next>>
       ELSE /\ pc' = "idle"
            /\ result' = [tag |-> "Err", err |-> unexpected_status_code(status)]
            /\ outcome' = "status"
            /\ payload' = EmptyPayload
            /\ next' = None
            /\ UNCHANGED resp
    /\ UNCHANGED <<query, corpus, options, calls, sent, lastReq, pre, prevOutcome, budget0,
                   ok_pages, lastPageToken>>

\* .send().await yields Ok(res): match on res.status().
RecvResponse(status, body) ==
    /\ UNCHANGED peer
    /\ pc = "send"
    /\ IF status = 200
       THEN /\ pc' = "text"
            /\ resp' = [status |-> status, body |-> body]
            /\ UNCHANGED <<result, outcome>>
       ELSE IF status = 400
       THEN /\ pc' = "json"
            /\ resp' = [status |-> status, body |-> body]
            /\ UNCHANGED <<result, outcome>>
       ELSE /\ pc' = "idle"
            /\ result' = [tag |-> "Err", err |-> unexpected_status_code(status)]
            /\ outcome' = "status"
            /\ UNCHANGED resp
    /\ UNCHANGED <<cursor, calls, sent, lastReq, pre, prevOutcome, budget0, ok_pages,
                   lastPageToken>>

\* res.text().await yields Err: Some(Err(Error::exception(err))).
TextFails ==
    /\ UNCHANGED peer
    /\ pc = "text"
    /\ pc' = "idle"
    /\ resp' = NoResp
    /\ result' = [tag |-> "Err", err |-> exception(ReqwestError("body"))]
    /\ outcome' = "body"
    /\ UNCHANGED <<cursor, calls, sent, lastReq, pre, prevOutcome, budget0, ok_pages,
                   lastPageToken>>

\* res.text().await yields Ok(text): store it, decode it, update budget and token.
RecvText ==
    /\ UNCHANGED peer
    /\ pc = "text"
    /\ resp' = NoResp
    /\ payload' = PayloadAfterText(resp.body)
    /\ IF SearchResultOk(payload')
       THEN LET res == SearchResult(payload') IN
            /\ options' = [options EXCEPT !.max_page_count = CountAfterPage(res.next_page_token)]
            /\ next' = NextAfterPage(res.next_page_token)
            /\ result' = [tag |-> "Ok",
                          page |-> [query_tokens |-> res.query_tokens, ngrams |-> res.ngrams]]
            /\ outcome' = "page"
            /\ ok_pages' = ok_pages + 1
            /\ lastPageToken' = res.next_page_token
            \* the subtraction overflows at 0: a panic or a wrap, by build
            /\ pc' \in IF res.next_page_token # None /\ options.max_page_count = 0
                       THEN {"panicked", "idle"} ELSE {"idle"}
       ELSE /\ result' = [tag |-> "Err", err |-> exception(SerdeJsonError)]
            /\ outcome' = "parse"
            /\ pc' = "idle"
            /\ UNCHANGED <<options, next, ok_pages, lastPageToken>>
    /\ UNCHANGED <<query, corpus, calls, sent, lastReq, pre, prevOutcome, budget0>>

\* res.json::<ErrorResult>().await: the body is read and decoded in one await.
RecvErrorJson(read_ok) ==
    /\ UNCHANGED peer
    /\ pc = "json"
    /\ pc' = "idle"
    /\ resp' = NoResp
    /\ IF read_ok /\ ErrorResultOk(resp.body)
       THEN LET res == ErrorResult(resp.body) IN
            /\ result' = [tag |-> "Err",
                          err |-> bad_input(BadInputError(res.error.code, res.query_tokens))]
            /\ outcome' = "rejected"
       ELSE /\ result' = [tag |-> "Err", err |-> exception(ReqwestError("decode"))]
            /\ outcome' = "undecoded"
    /\ UNCHANGED <<cursor, calls, sent, lastReq, pre, prevOutcome, budget0, ok_pages,
                   lastPageToken>>

\* The caller drops the future of a pending call at its suspension point.
Abandon ==
    /\ UNCHANGED peer
    /\ pc \in {"send", "text", "json"}
    /\ pc' = "idle"
    /\ resp' = NoResp
    /\ result' = [tag |-> "Abandoned"]
    /\ outcome' = "abandoned"
    /\ UNCHANGED <<cursor, calls, sent, lastReq, pre, prevOutcome, budget0, ok_pages,
                   lastPageToken>>

Next ==
    \/ NextCall
    \/ SendFails
    \/ \E status \in StatusCodes, body \in Bodies : RecvResponse(status, body)
    \/ TextFails
    \/ RecvText
    \/ \E read_ok \in BOOLEAN : RecvErrorJson(read_ok)
    \/ Abandon

Spec == Init /\ [][Next]_vars

\* The cursor against a server that rejects every request: each answer is a
\* 400 with an error object of CodeBodies, whose body arrives whole.
NextRejected ==
    \/ NextCall
    \/ \E body \in CodeBodies : RecvResponse(400, body)
    \/ RecvErrorJson(TRUE)

SpecRejected == Init /\ [][NextRejected]_vars

\* The cursor under every combination of the modifiers, with a budget of zero
\* or one page, against a server that cannot be reached.
InitFlags ==
    /\ query \in Queries
    /\ corpus \in Corpus
    /\ \E o \in AllOptions, b \in 0..1 : options = [o EXCEPT !.max_page_count = b]
    /\ payload = EmptyPayload
    /\ next = None
    /\ pc = "idle"
    /\ resp = NoResp
    /\ result = [tag |-> "NoCall"]
    /\ calls = 0
    /\ sent = 0
    /\ lastReq = NoReq
    /\ pre = Snapshot
    /\ outcome = "nocall"
    /\ prevOutcome = "nocall"
    /\ budget0 = options.max_page_count
    /\ ok_pages = 0
    /\ lastPageToken = None
    /\ peer = NoPeer

NextFlags ==
    \/ NextCall
    \/ SendFails

SpecFlags == InitFlags /\ [][NextFlags]_vars

\* ------------------------------------------------- single-shot endpoints
\* Client::get_ngram, Client::get_corpus_info and Client::get_total_counts:
\* the endpoint of the call in flight is the member by of its request.
Endpoints == {"get_ngram", "get_corpus_info", "get_total_counts"}

\* The resource each endpoint passes to internal::get.
Resource(fn, id) ==
    IF fn = "get_ngram" THEN id
    ELSE IF fn = "get_corpus_info" THEN "info" ELSE "total_counts"

\* internal::get(self, corpus, resource) without parameters.
ShotRequest(fn, id) ==
    [url |-> label(corpus) \o "/" \o Resource(fn, id), params |-> <<>>, by |-> fn]

\* The bodies a resource may answer with, those of the other resources included.
ShotBodies == NgramBodies \cup CorpusInfoBodies \cup TotalCountsBodies

\* res.json::<T>() for the T of each endpoint.
ShotOk(fn, body) ==
    IF fn = "get_ngram" THEN NgramOk(body)
    ELSE IF fn = "get_corpus_info" THEN CorpusInfoOk(body) ELSE TotalCountsOk(body)

ShotRecord(fn, body) ==
    IF fn = "get_ngram" THEN Ngram(body)
    ELSE IF fn = "get_corpus_info" THEN CorpusInfo(body) ELSE TotalCounts(body)

\* A call of one of the three endpoints: the request is issued.
ShotCall(fn, id) ==
    /\ UNCHANGED peer
    /\ pc = "idle"
    /\ calls < MaxCalls
    /\ calls' = calls + 1
    /\ sent' = sent + 1
    /\ pc' = "shot.send"
    /\ lastReq' = ShotRequest(fn, id)
    /\ resp' = NoResp
    /\ result' = [tag |-> "Pending"]
    /\ prevOutcome' = outcome
    /\ outcome' = "pending"
    /\ UNCHANGED <<cursor, pre, budget0, ok_pages, lastPageToken>>

\* .send().await? yields Err: From<reqwest::Error> makes it Error::connection.
ShotSendFails ==
    /\ UNCHANGED peer
    /\ pc = "shot.send"
    /\ pc' = "idle"
    /\ result' = [tag |-> "Err", err |-> connection(ReqwestError("send"))]
    /\ outcome' = "transport"
    /\ UNCHANGED <<cursor, resp, calls, sent, lastReq, pre, prevOutcome, budget0, ok_pages,
                   lastPageToken>>

\* Variant of the step below: 404 is the not-found outcome of every endpoint.
ShotRecvResponse_notfound(status, body) ==
    /\ UNCHANGED peer
    /\ pc = "shot.send"
    /\ resp' = [status |-> status, body |-> body]
    /\ IF status = 200
       THEN /\ pc' = "shot.json"
            /\ UNCHANGED <<result, outcome>>
       ELSE IF status = 404
       THEN /\ pc' = "idle"
            /\ result' = [tag |-> "Ok", value |-> None]
            /\ outcome' = "notfound"
       ELSE /\ pc' = "idle"
            /\ result' = [tag |-> "Err", err |-> unexpected_status_code(status)]
            /\ outcome' = "status"
    /\ UNCHANGED <<cursor, calls, sent, lastReq, pre, prevOutcome, budget0, ok_pages,
                   lastPageToken>>

\* .send().await? yields Ok(res): match on res.status(). Only get_ngram has
\* an arm for NOT_FOUND.
ShotRecvResponse(status, body) ==
    /\ UNCHANGED peer
    /\ pc = "shot.send"
    /\ resp' = [status |-> status, body |-> body]
    /\ IF status = 200
       THEN /\ pc' = "shot.json"
            /\ UNCHANGED <<result, outcome>>
       ELSE IF status = 404 /\ lastReq.by = "get_ngram"
       THEN /\ pc' = "idle"
            /\ result' = [tag |-> "Ok", value |-> None]
            /\ outcome' = "notfound"
       ELSE /\ pc' = "idle"
            /\ result' = [tag |-> "Err", err |-> unexpected_status_code(status)]
            /\ outcome' = "status"
    /\ UNCHANGED <<cursor, calls, sent, lastReq, pre, prevOutcome, budget0, ok_pages,
                   lastPageToken>>

\* res.json().await?: the body is read (read_ok) and decoded; an Err of either
\* is a reqwest::Error, which From<reqwest::Error> makes Error::connection.
ShotRecvJson(read_ok) ==
    /\ UNCHANGED peer
    /\ pc = "shot.json"
    /\ pc' = "idle"
    /\ IF ~read_ok
       THEN /\ result' = [tag |-> "Err", err |-> connection(ReqwestError("body"))]
            /\ outcome' = "body"
       ELSE IF ShotOk(lastReq.by, resp.body)
       THEN /\ result' = [tag |-> "Ok", value |-> ShotRecord(lastReq.by, resp.body)]
            /\ outcome' = "record"
       ELSE /\ result' = [tag |-> "Err", err |-> connection(ReqwestError("decode"))]
            /\ outcome' = "undecoded"
    /\ UNCHANGED <<cursor, resp, calls, sent, lastReq, pre, prevOutcome, budget0, ok_pages,
                   lastPageToken>>

\* The client before any cursor is made of it: the cursor's fields are those
\* of a search that is never polled.
InitShot ==
    /\ Init
    /\ options = [DefaultOptions EXCEPT !.max_page_count = 0]

NextShot ==
    \/ \E fn \in Endpoints, id \in NgramIds : ShotCall(fn, id)
    \/ ShotSendFails
    \/ \E status \in StatusCodes, body \in ShotBodies : ShotRecvResponse(status, body)
    \/ \E read_ok \in BOOLEAN : ShotRecvJson(read_ok)

SpecShot == InitShot /\ [][NextShot]_vars

\* ------------------------------------------------- decoding a body twice
\* A raw body decoded the two ways of benches/deserialize.rs: into the owned
\* Page, and into a PageView that is then converted with to_page. The three
\* values are the members page, view and from_view of the result.
NotRun == [tag |-> "NotRun"]

InitDecode ==
    /\ query \in Queries
    /\ corpus \in Corpus
    /\ options = DefaultOptions
    /\ payload \in RawBodies
    /\ next = None
    /\ pc = "idle"
    /\ resp = NoResp
    /\ result = [tag |-> "Decoded", page |-> NotRun, view |-> NotRun, from_view |-> NotRun]
    /\ calls = 0
    /\ sent = 0
    /\ lastReq = NoReq
    /\ pre = Snapshot
    /\ outcome = "nocall"
    /\ prevOutcome = "nocall"
    /\ budget0 = options.max_page_count
    /\ ok_pages = 0
    /\ lastPageToken = None
    /\ peer = NoPeer

\* serde_json::from_str::<Page>(&json).
FromStrPage ==
    /\ UNCHANGED peer
    /\ result.page = NotRun
    /\ result' = [result EXCEPT !.page =
                      IF PageOk(payload) THEN [tag |-> "Ok", value |-> Page(payload)]
                      ELSE [tag |-> "Err", err |-> SerdeJsonError]]
    /\ UNCHANGED <<cursor, pc, resp, calls, sent, lastReq, pre, outcome, prevOutcome,
                   budget0, ok_pages, lastPageToken>>

\* serde_json::from_str::<PageView>(&json).
FromStrPageView ==
    /\ UNCHANGED peer
    /\ result.view = NotRun
    /\ result' = [result EXCEPT !.view =
                      IF PageViewOk(payload) THEN [tag |-> "Ok", value |-> PageView(payload)]
                      ELSE [tag |-> "Err", err |-> SerdeJsonError]]
    /\ UNCHANGED <<cursor, pc, resp, calls, sent, lastReq, pre, outcome, prevOutcome,
                   budget0, ok_pages, lastPageToken>>

\* view.to_page() on the view decoded before.
ToPage ==
    /\ UNCHANGED peer
    /\ result.view.tag = "Ok"
    /\ result.from_view = NotRun
    /\ result' = [result EXCEPT !.from_view = [tag |-> "Ok", value |-> to_page(result.view.value)]]
    /\ UNCHANGED <<cursor, pc, resp, calls, sent, lastReq, pre, outcome, prevOutcome,
                   budget0, ok_pages, lastPageToken>>

NextDecode ==
    \/ FromStrPage
    \/ FromStrPageView
    \/ ToPage

SpecDecode == InitDecode /\ [][NextDecode]_vars

\* ------------------------------------------------- two cursors of one client
\* Client::search twice: Pages::new gives each cursor its own clone of the
\* client and its own query, corpus, options, payload and token. The fields
\* and the record of one cursor are in the variables above while it is
\* polled; those of the other are parked in peer.
NewPages(id, q, c, o) ==
    [id |-> id, query |-> q, corpus |-> c, options |-> o, payload |-> EmptyPayload,
     next |-> None, pc |-> "idle", resp |-> NoResp, result |-> [tag |-> "NoCall"],
     calls |-> 0, sent |-> 0, lastReq |-> NoReq,
     pre |-> [max_page_count |-> o.max_page_count, next |-> None, payload |-> EmptyPayload],
     outcome |-> "nocall", prevOutcome |-> "nocall", budget0 |-> o.max_page_count,
     ok_pages |-> 0, lastPageToken |-> None]

\* The polled cursor as a record, under the given id.
Parked(id) ==
    [id |-> id, query |-> query, corpus |-> corpus, options |-> options, payload |-> payload,
     next |-> next, pc |-> pc, resp |-> resp, result |-> result,
     calls |-> calls, sent |-> sent, lastReq |-> lastReq, pre |-> pre,
     outcome |-> outcome, prevOutcome |-> prevOutcome, budget0 |-> budget0,
     ok_pages |-> ok_pages, lastPageToken |-> lastPageToken]

\* Cursor 1 searches the English corpus and cursor 2 the German one, each
\* with a budget of its own.
InitPair ==
    \E q \in Queries, b1 \in 1..2, b2 \in 1..2 :
        /\ peer = NewPages(2, q, "German", [DefaultOptions EXCEPT !.max_page_count = b2])
        /\ LET p == NewPages(1, q, "English", [DefaultOptions EXCEPT !.max_page_count = b1])
           IN  /\ query = p.query /\ corpus = p.corpus /\ options = p.options
               /\ payload = p.payload /\ next = p.next /\ pc = p.pc /\ resp = p.resp
               /\ result = p.result /\ calls = p.calls /\ sent = p.sent
               /\ lastReq = p.lastReq /\ pre = p.pre /\ outcome = p.outcome
               /\ prevOutcome = p.prevOutcome /\ budget0 = p.budget0
               /\ ok_pages = p.ok_pages /\ lastPageToken = p.lastPageToken

\* Variant of Switch: the payload buffer belongs to the client, so the cursor
\* that is resumed finds in it what the other cursor wrote.
Switch_sharedbuffer ==
    /\ peer.id # 0
    /\ peer' = Parked(3 - peer.id)
    /\ query' = peer.query /\ corpus' = peer.corpus /\ options' = peer.options
    /\ payload' = payload /\ next' = peer.next /\ pc' = peer.pc /\ resp' = peer.resp
    /\ result' = peer.result /\ calls' = peer.calls /\ sent' = peer.sent
    /\ lastReq' = peer.lastReq /\ pre' = peer.pre /\ outcome' = peer.outcome
    /\ prevOutcome' = peer.prevOutcome /\ budget0' = peer.budget0
    /\ ok_pages' = peer.ok_pages /\ lastPageToken' = peer.lastPageToken

\* The executor turns from one cursor to the other, at an await or between
\* calls: each Pages owns all of its fields, so the one is parked as it is
\* and the other resumed as it was.
Switch ==
    /\ peer.id # 0
    /\ peer' = Parked(3 - peer.id)
    /\ query' = peer.query /\ corpus' = peer.corpus /\ options' = peer.options
    /\ payload' = peer.payload /\ next' = peer.next /\ pc' = peer.pc /\ resp' = peer.resp
    /\ result' = peer.result /\ calls' = peer.calls /\ sent' = peer.sent
    /\ lastReq' = peer.lastReq /\ pre' = peer.pre /\ outcome' = peer.outcome
    /\ prevOutcome' = peer.prevOutcome /\ budget0' = peer.budget0
    /\ ok_pages' = peer.ok_pages /\ lastPageToken' = peer.lastPageToken

\* The bodies the server answers the two cursors with.
PairBodies ==
    {[queryTokens |-> QT3, ngrams |-> <<NgramJsonA>>, nextPageToken |-> t] : t \in Tokens}
    \cup {[queryTokens |-> QT3, ngrams |-> <<NgramJsonB>>], [raw |-> "<html>"]}

NextPair ==
    \/ calls < MaxPairCalls /\ NextCall
    \/ SendFails
    \/ \E status \in {200, 500}, body \in PairBodies : RecvResponse(status, body)
    \/ RecvText
    \/ Switch

SpecPair == InitPair /\ [][NextPair]_vars

\* ------------------------------------------------- the caller and its errors
\* The caller hands the error a call returned to into_bad_input_error.
IntoBadInputError ==
    /\ UNCHANGED peer
    /\ pc = "idle"
    /\ result.tag = "Err"
    /\ result' = [tag |-> "Consumed", err |-> result.err,
                  bad_input_error |-> into_bad_input_error(result.err)]
    /\ UNCHANGED <<cursor, pc, resp, calls, sent, lastReq, pre, outcome, prevOutcome,
                   budget0, ok_pages, lastPageToken>>

\* One client used for a search of the English corpus with a budget of two
\* pages and for the single-shot endpoints.
InitClient ==
    /\ Init
    /\ corpus = "English"
    /\ options = [DefaultOptions EXCEPT !.max_page_count = 2]

NextClient ==
    \/ calls < MaxClientCalls /\ NextCall
    \/ SendFails
    \/ \E status \in StatusCodes, body \in Bodies : RecvResponse(status, body)
    \/ TextFails
    \/ RecvText
    \/ \E read_ok \in BOOLEAN : RecvErrorJson(read_ok)
    \/ \E fn \in Endpoints, id \in NgramIds : calls < MaxClientCalls /\ ShotCall(fn, id)
    \/ ShotSendFails
    \/ \E status \in StatusCodes, body \in ShotBodies : ShotRecvResponse(status, body)
    \/ \E read_ok \in BOOLEAN : ShotRecvJson(read_ok)
    \/ IntoBadInputError

SpecClient == InitClient /\ [][NextClient]_vars

\* ================================================================== claims
\* The value of the start parameter of a request, None when it carries none.
StartIndexes(req) == {i \in DOMAIN req.params : req.params[i][1] = "start"}

StartParam(req) ==
    IF StartIndexes(req) = {} THEN None
    ELSE req.params[CHOOSE i \in StartIndexes(req) : TRUE][2]

Suspended == pc \in {"send", "text", "json"}

\* C1: whenever the remaining budget is zero, a call of Pages::next returns
\* None, issues no request and changes no field of the cursor; once a call has
\* returned None every later call returns None and issues no request; a
\* cursor created with budget 0 never issues a request.
C1_ZeroBudgetReturnsNone ==
    /\ [][(calls' = calls + 1 /\ options.max_page_count = 0)
              => (result'.tag = "None" /\ sent' = sent /\ pc' = "idle"
                  /\ UNCHANGED cursor)]_vars
    /\ [][(calls' = calls + 1 /\ result.tag = "None")
              => (result'.tag = "None" /\ sent' = sent)]_vars
    /\ [](budget0 = 0 => sent = 0)

\* C1 witness: a cursor that was active has returned None twice in a row.
C1_Witness ==
    /\ result.tag = "None" /\ prevOutcome = "none"
    /\ budget0 > 0 /\ sent > 0

\* C2: a cursor created with budget B > 0 returns Some(Ok(page)) at most B
\* times, whatever the outcomes of its other calls.
C2_AtMostBudgetPages == budget0 > 0 => ok_pages <= budget0

\* C2 witness: the whole budget of at least two pages was used, with at least
\* one call in between that failed or was dropped.
C2_Witness ==
    /\ budget0 >= 2 /\ ok_pages = budget0
    /\ sent > ok_pages

\* C3: a decoded page with token t lowers the budget by exactly one and
\* stores t; a request issued after it carries start = t; a request carries a
\* start parameter only when a token is stored, so the first carries none.
C3_TokenStoredAndSent ==
    /\ (outcome = "page" /\ lastPageToken # None /\ pc = "idle")
           => (options.max_page_count = pre.max_page_count - 1
               /\ next = lastPageToken)
    /\ pc = "send"
           => (StartParam(lastReq) = lastPageToken
               /\ Cardinality(StartIndexes(lastReq)) = (IF next = None THEN 0 ELSE 1)
               /\ (ok_pages = 0 => StartIndexes(lastReq) = {}))

\* C3 witness: a request with start = tokB is pending after a page that
\* carried tokB and a later call that failed.
C3_Witness ==
    /\ pc = "send" /\ lastPageToken = "tokB" /\ StartParam(lastReq) = "tokB"
    /\ prevOutcome \notin {"page", "nocall"}

\* C4: a decoded page without a token is returned, the budget becomes zero
\* and the token None whatever the budget was; from then on every call
\* returns None and no request is issued.
C4_LastPageExhausts ==
    /\ []((ok_pages > 0 /\ lastPageToken = None)
              => (options.max_page_count = 0 /\ next = None /\ pc = "idle"
                  /\ outcome \in {"page", "none"}
                  /\ (outcome = "page" =>
                          /\ result.tag = "Ok"
                          /\ result.page.query_tokens = SearchResult(payload).query_tokens
                          /\ result.page.ngrams = SearchResult(payload).ngrams)))
    /\ [][(ok_pages > 0 /\ lastPageToken = None)
              => (sent' = sent /\ (calls' # calls => result'.tag = "None"))]_vars

\* C4 witness: a cursor with budget at least 2 returned None after a single
\* page, which carried no token.
C4_Witness ==
    /\ result.tag = "None" /\ ok_pages = 1 /\ lastPageToken = None
    /\ budget0 >= 2

\* C5 as stated: once a page has been fetched, the cursor is exhausted if and
\* only if the most recently fetched page carried no continuation token.
C5_ExhaustedIffNoToken ==
    (pc = "idle" /\ ok_pages > 0) => (IsExhausted <=> lastPageToken = None)

\* C5 amended: the cursor is exhausted if and only if the most recently
\* fetched page carried no continuation token or as many pages have been
\* fetched as the budget the cursor was created with (0 included).
C5_ExhaustedIffNoTokenOrBudgetUsed ==
    pc = "idle" =>
        (IsExhausted <=> ((ok_pages > 0 /\ lastPageToken = None) \/ ok_pages = budget0))

\* C5 witness: the cursor is exhausted although its last page carried a token.
C5_Witness ==
    /\ pc = "idle" /\ IsExhausted
    /\ ok_pages = 2 /\ lastPageToken # None

\* C6 as stated: after a call that returned a domain rejection (400 with an
\* error object) the budget is zero, so that later calls return None.
C6_RejectionExhausts ==
    (outcome = "rejected" /\ pc = "idle") => options.max_page_count = 0

\* C7: a transport failure returns an error of kind Connection and leaves
\* budget and token as they were; the call after it issues a request with
\* the same url and parameters as the one that failed.
C7_TransportFailureRetriable ==
    /\ [][(pc = "send" /\ outcome' = "transport")
              => (result'.tag = "Err" /\ result'.err.kind = "Connection"
                  /\ result'.err.source.type = "reqwest::Error"
                  /\ pc' = "idle" /\ UNCHANGED cursor)]_vars
    /\ [](outcome = "transport"
              => (options.max_page_count = pre.max_page_count /\ next = pre.next))
    /\ [][(outcome = "transport" /\ calls' = calls + 1)
              => (pc' = "send" /\ sent' = sent + 1 /\ lastReq' = lastReq)]_vars

\* C7 witness: a request carrying a start token is pending again after the
\* previous call failed at transport level.
C7_Witness ==
    /\ pc = "send" /\ prevOutcome = "transport"
    /\ StartParam(lastReq) # None

\* C8 as stated: a 200 response whose body does not decode gives an error
\* whose kind is Exception, not the kind Connection of a transport failure.
C8_ParseErrorKindException ==
    (outcome = "parse" /\ pc = "idle")
        => (result.tag = "Err" /\ result.err.kind = "Exception"
            /\ result.err.kind # connection(ReqwestError("send")).kind)

\* C9 as stated: a parse failure leaves budget, token and buffer as they
\* were when the call began.
C9_ParseFailureKeepsAll ==
    (outcome = "parse" /\ pc = "idle")
        => (options.max_page_count = pre.max_page_count /\ next = pre.next
            /\ payload = pre.payload)

\* C9 amended: a parse failure leaves budget and token as they were when the
\* call began; the buffer holds the body that failed to decode.  When reading
\* the body fails, the buffer too is left as it was.
C9_ParseFailureKeepsBudgetAndToken ==
    /\ [][(pc = "text" /\ outcome' = "parse")
              => (payload' = resp.body /\ ~SearchResultOk(resp.body)
                  /\ UNCHANGED <<query, corpus, options, next>>)]_vars
    /\ [](outcome = "parse"
              => (options.max_page_count = pre.max_page_count /\ next = pre.next
                  /\ ~SearchResultOk(payload)))
    /\ [](outcome = "body" => Snapshot = pre)

\* C9 witness: after a page with a token, a parse failure has replaced the
\* buffer and kept budget and token.
C9_Witness ==
    /\ outcome = "parse" /\ pc = "idle"
    /\ payload # pre.payload /\ next # None
    /\ options.max_page_count = pre.max_page_count

\* C10: at every suspension point of a pending call budget, token and buffer
\* are what they were when the call began, so a call dropped there leaves
\* them so; the call after a dropped one issues the request the dropped one
\* issued.
C10_AbandonLeavesCursor ==
    /\ [](Suspended => Snapshot = pre)
    /\ [][outcome' = "abandoned" => (Suspended /\ pc' = "idle" /\ UNCHANGED cursor)]_vars
    /\ [](outcome = "abandoned" => Snapshot = pre)
    /\ [][(outcome = "abandoned" /\ calls' = calls + 1)
              => (pc' = "send" /\ lastReq' = lastReq)]_vars

\* C10 witness: a pending call was dropped at one of its suspension points,
\* on a cursor that already holds a token and a page.
C10_Witness ==
    /\ outcome = "abandoned" /\ pc = "idle"
    /\ lastReq # NoReq /\ next # None /\ payload # EmptyPayload

C12_ClientCodes ==
    {"INVALID_PARAMETER.LIMIT", "INVALID_QUERY.BAD_ALTERNATION",
     "INVALID_QUERY.BAD_COMPLETION", "INVALID_QUERY.BAD_TERM_GROUP",
     "INVALID_QUERY.NO_TERM", "INVALID_QUERY.TOO_EXPENSIVE",
     "INVALID_QUERY.TOO_MANY_TOKENS"}

\* C12 as stated: for every code of the server's enumeration, a 400 response
\* carrying it makes Pages::next return a BadInput error carrying that code.
C12_EveryServerCodeRejected ==
    [][(pc = "json" /\ pc' = "idle" /\ resp.body.error.code \in ServerErrorCode)
           => (result'.tag = "Err" /\ result'.err.kind = "BadInput"
               /\ result'.err.source.type = "BadInputError"
               /\ result'.err.source.code = resp.body.error.code)]_vars

\* C12 amended: for each of the seven codes enum ErrorCode declares, a 400
\* response carrying it makes Pages::next return a BadInput error carrying
\* that code; for the other four codes of the server's enumeration the body
\* does not decode and the error is the one of Error::exception, whose source
\* is the decoding error.
C12_ClientCodesRejected ==
    /\ [][(pc = "json" /\ pc' = "idle" /\ resp.body.error.code \in C12_ClientCodes)
              => (result'.tag = "Err" /\ result'.err.kind = "BadInput"
                  /\ result'.err.source.type = "BadInputError"
                  /\ result'.err.source.code = resp.body.error.code)]_vars
    /\ [][(pc = "json" /\ pc' = "idle"
           /\ resp.body.error.code \in ServerErrorCode \ C12_ClientCodes)
              => (result'.tag = "Err" /\ result'.err = exception(ReqwestError("decode"))
                  /\ outcome' = "undecoded")]_vars

\* C12 witness: the last code of the enum was carried by a rejection, after a
\* call whose error object carried a code the enum leaves out.
C12_Witness ==
    /\ outcome = "rejected" /\ prevOutcome = "undecoded"
    /\ result.err.source.code = "INVALID_QUERY.TOO_MANY_TOKENS"

\* C13 as stated: a status other than 200 and 400 gives an error that carries
\* the status code and whose kind is Exception, a kind different from those
\* of a transport failure and of a domain rejection.
C13_UnexpectedStatusKindException ==
    (outcome = "status" /\ pc = "idle")
        => (result.tag = "Err"
            /\ result.err.source.type = "UnexpectedStatusCode"
            /\ result.err.source.code \in StatusCodes \ {200, 400}
            /\ result.err.kind = "Exception"
            /\ result.err.kind # connection(ReqwestError("send")).kind
            /\ result.err.kind # bad_input(BadInputError("INVALID_QUERY.NO_TERM", None)).kind)

\* C14: the stored token is the token of the most recently returned page
\* (None when that page reported none, and None before any page); a call
\* that returns no page does not change it.
C14_TokenIsLastPageToken ==
    /\ [](next = lastPageToken)
    /\ [](ok_pages = 0 => next = None)
    /\ [][ok_pages' = ok_pages => next' = next]_vars

\* C14 witness: after two pages, the second carrying tokB, a call ended in an
\* error and tokB is still stored.
C14_Witness ==
    /\ ok_pages = 2 /\ lastPageToken = "tokB" /\ next = "tokB"
    /\ pc = "idle"
    /\ outcome \in {"transport", "parse", "body", "rejected", "undecoded", "status"}

\* C15 as stated: the cursor starts Active (budget > 0) iff the requested
\* max_page_count is nonzero; the budget never increases; an Active cursor
\* becomes Exhausted (budget = 0) only through a page without a token, a
\* domain rejection or a decrement that reaches 0, and each of these events
\* makes it Exhausted; Exhausted is absorbing.
C15_TwoStateMachine ==
    /\ [](calls = 0 => (options.max_page_count > 0 <=> budget0 # 0))
    /\ [][options'.max_page_count <= options.max_page_count]_vars
    /\ [][(options.max_page_count > 0 /\ options'.max_page_count = 0)
              => ((outcome' = "page"
                   /\ (lastPageToken' = None \/ options.max_page_count = 1))
                  \/ outcome' = "rejected")]_vars
    /\ [][(pc = "text" /\ outcome' = "page"
           /\ (lastPageToken' = None \/ options.max_page_count = 1))
              => options'.max_page_count = 0]_vars
    /\ [][(pc = "json" /\ outcome' = "rejected") => options'.max_page_count = 0]_vars
    /\ [][options.max_page_count = 0 => options'.max_page_count = 0]_vars

\* C16: when a call returns a page, the buffer is the raw body of that
\* response and the page holds the query tokens and n-grams of that body, as
\* many and in the same order, with the ids, counts and tokens of the body.
C16_PageIsTheBody ==
    [][(pc = "text" /\ outcome' = "page")
           => LET body == resp.body
                  page == result'.page
              IN  /\ result'.tag = "Ok"
                  /\ payload' = body
                  /\ Len(page.query_tokens) = Len(body.queryTokens)
                  /\ \A i \in DOMAIN body.queryTokens :
                         /\ page.query_tokens[i].kind = body.queryTokens[i].kind
                         /\ page.query_tokens[i].text = body.queryTokens[i].text
                  /\ Len(page.ngrams) = Len(body.ngrams)
                  /\ \A i \in DOMAIN body.ngrams :
                         /\ page.ngrams[i].id = body.ngrams[i].id
                         /\ page.ngrams[i].abs_total_match_count = body.ngrams[i].absTotalMatchCount
                         /\ page.ngrams[i].rel_total_match_count = body.ngrams[i].relTotalMatchCount
                         /\ Len(page.ngrams[i].tokens) = Len(body.ngrams[i].tokens)
                         /\ \A k \in DOMAIN body.ngrams[i].tokens :
                                /\ page.ngrams[i].tokens[k].kind = body.ngrams[i].tokens[k].kind
                                /\ page.ngrams[i].tokens[k].text = body.ngrams[i].tokens[k].text]_vars

\* C16 witness: the second page returned holds the three query tokens and the
\* single n-gram b2 of its own body, and the buffer no longer holds the first.
C16_Witness ==
    /\ outcome = "page" /\ pc = "idle" /\ ok_pages = 2
    /\ pre.payload # payload
    /\ Len(result.page.query_tokens) = 3
    /\ Len(result.page.ngrams) = 1 /\ result.page.ngrams[1].id = "b2"

\* The five outcomes of a call that resolves, by the branch taken and the
\* value returned.
C17_Resolved ==
    \/ outcome = "page" /\ result.tag = "Ok"
    \/ /\ outcome = "transport" /\ result.tag = "Err"
       /\ result.err.source = ReqwestError("send")
    \/ /\ outcome \in {"parse", "body", "undecoded"} /\ result.tag = "Err"
       /\ result.err.source \in {SerdeJsonError, ReqwestError("body"), ReqwestError("decode")}
    \/ /\ outcome = "rejected" /\ result.tag = "Err"
       /\ result.err.source.type = "BadInputError"
    \/ /\ outcome = "status" /\ result.tag = "Err"
       /\ result.err.source.type = "UnexpectedStatusCode"

\* C17: a call on a cursor that is not exhausted issues exactly one request,
\* requests are issued at no other time (no retry after a failure), and a
\* call that resolves returns exactly one of: a page, a Connection error, a
\* Parse error, a Domain rejection, an Unexpected-status error.
C17_OneRequestOneOutcome ==
    /\ [][(calls' = calls + 1 /\ options.max_page_count # 0)
              => (sent' = sent + 1 /\ pc' = "send")]_vars
    /\ [][sent' # sent => (calls' = calls + 1 /\ sent' = sent + 1)]_vars
    /\ [][(Suspended /\ pc' = "idle" /\ outcome' # "abandoned") => C17_Resolved']_vars
    /\ [](sent <= calls)

\* C17 witness: three calls, three requests: a transport failure was followed
\* by a call that ended in an unexpected status.
C17_Witness ==
    /\ calls = 3 /\ sent = 3 /\ pc = "idle"
    /\ prevOutcome = "transport" /\ outcome = "status"

\* The modifiers in the order of their codes.
C18_Modifiers ==
    << <<"case_sensitive", "cs">>, <<"collapse_result", "cr">>,
       <<"exclude_punctuation_marks", "ep">>, <<"exclude_sentence_boundary_tags", "es">>,
       <<"dont_interpret_query_operators", "ri">>, <<"dont_tokenize_query_terms", "rt">>,
       <<"dont_unicode_normalize_query", "rn">> >>

C18_Active(o) == {i \in DOMAIN C18_Modifiers : o[C18_Modifiers[i][1]]}

RECURSIVE C18_Codes(_, _)
C18_Codes(o, i) ==
    IF i > Len(C18_Modifiers) THEN ""
    ELSE (IF i \in C18_Active(o) THEN C18_Modifiers[i][2] ELSE "") \o C18_Codes(o, i + 1)

C18_FlagsIndexes(req) == {i \in DOMAIN req.params : req.params[i][1] = "flags"}

\* C18: to_flags is the concatenation of the codes of exactly the active
\* modifiers in the order cs, cr, ep, es, ri, rt, rn; with none active it is
\* empty and the request has no flags parameter, with one or more active the
\* request has exactly one flags parameter, whose value is that string.
C18_FlagsInFixedOrder ==
    /\ to_flags(options) = C18_Codes(options, 1)
    /\ Len(to_flags(options)) = 2 * Cardinality(C18_Active(options))
    /\ C18_Active(options) = {} => to_flags(options) = ""
    /\ pc = "send" =>
           IF C18_Active(options) = {}
           THEN C18_FlagsIndexes(lastReq) = {}
           ELSE /\ Cardinality(C18_FlagsIndexes(lastReq)) = 1
                /\ \A i \in C18_FlagsIndexes(lastReq) :
                       lastReq.params[i][2] = C18_Codes(options, 1)

\* C18 witness: a request in flight with all seven modifiers on, carrying the
\* seven codes in order as its third parameter.
C18_Witness ==
    /\ pc = "send"
    /\ Cardinality(C18_Active(options)) = 7
    /\ lastReq.params[3] = <<"flags", "cscrepesrirtrn">>

\* A single-shot call that resolved after a response arrived.
C19_Answered == pc = "idle" /\ "by" \in DOMAIN lastReq /\ resp # NoResp

\* C19: each single-shot endpoint maps the status of the response to its
\* outcome: 200 gives the record parsed from the body; 404 gives Ok(None) for
\* get_ngram and an unexpected-status error for the other two; every other
\* status gives an unexpected-status error carrying that status.
C19_StatusToOutcome ==
    C19_Answered =>
        /\ resp.status = 200 =>
               \/ /\ lastReq.by = "get_ngram" /\ NgramOk(resp.body)
                  /\ result = [tag |-> "Ok", value |-> Ngram(resp.body)]
               \/ /\ lastReq.by = "get_corpus_info" /\ CorpusInfoOk(resp.body)
                  /\ result = [tag |-> "Ok", value |-> CorpusInfo(resp.body)]
               \/ /\ lastReq.by = "get_total_counts" /\ TotalCountsOk(resp.body)
                  /\ result = [tag |-> "Ok", value |-> TotalCounts(resp.body)]
               \/ /\ result.tag = "Err"
                  /\ result.err.source.type = "reqwest::Error"
                  /\ result.err.source.what \in {"body", "decode"}
        /\ (resp.status = 404 /\ lastReq.by = "get_ngram") =>
               result = [tag |-> "Ok", value |-> None]
        /\ (resp.status = 404 /\ lastReq.by # "get_ngram") =>
               /\ result.tag = "Err"
               /\ result.err.source = UnexpectedStatusCode(404)
        /\ resp.status \notin {200, 404} =>
               /\ result.tag = "Err"
               /\ result.err.source = UnexpectedStatusCode(resp.status)

\* C19 witness: get_corpus_info answered with 404 after a get_ngram call.
C19_Witness ==
    /\ C19_Answered
    /\ lastReq.by = "get_corpus_info" /\ resp.status = 404
    /\ result.tag = "Err" /\ calls >= 2

\* get_total_counts resolved on a 200 whose body was read and is a
\* total_counts object of five arrays.
C20_TotalCountsRead ==
    /\ C19_Answered
    /\ lastReq.by = "get_total_counts"
    /\ resp.status = 200
    /\ outcome # "body"
    /\ HasMembers(resp.body, {"minYear", "maxYear", "matchCounts"})
    /\ Len(resp.body.matchCounts) = 5

\* C20: get_total_counts on a 200 with one of the five per-year arrays of a
\* length other than 550 returns an error that is not a Connection error and
\* no record; with all five of length 550 it returns the record with the same
\* values in the same order.
C20_LengthMismatchIsParseError ==
    C20_TotalCountsRead =>
        IF \E b \in 1..5 : Len(resp.body.matchCounts[b]) # TOTAL_COUNTS_BY_YEAR_LEN
        THEN /\ result.tag = "Err"
             /\ result.err.kind # "Connection"
        ELSE /\ result.tag = "Ok"
             /\ result.value.min_year = resp.body.minYear
             /\ result.value.max_year = resp.body.maxYear
             /\ \A b \in 1..5 :
                    /\ Len(result.value.match_counts[b]) = TOTAL_COUNTS_BY_YEAR_LEN
                    /\ \A i \in 1..TOTAL_COUNTS_BY_YEAR_LEN :
                           result.value.match_counts[b][i] = resp.body.matchCounts[b][i]

\* C21: a body that decodes into the owned Page decodes into a PageView too,
\* and the Page converted from that view equals the Page decoded directly:
\* the same query tokens and n-grams in the same order, with the same kinds,
\* texts, ids, counts and flags.
C21_ViewThenOwnedEqualsOwned ==
    result.page.tag = "Ok" =>
        /\ result.view.tag # "Err"
        /\ result.from_view.tag = "Ok" => result.from_view.value = result.page.value

\* The polled cursor without its id.
C22_Polled == Parked(0)

\* C22: two cursors of one client are independent. A step of the polled
\* cursor changes nothing of the other: not its budget, token or buffer, nor
\* anything else of it; a cursor is resumed exactly as it was left; and every
\* step a cursor takes between two switches is a step of the cursor running
\* alone, so its outcomes are those of a run alone against the same responses.
C22_CursorsIndependent ==
    /\ [][peer'.id = peer.id => peer' = peer]_vars
    /\ [][peer'.id # peer.id =>
              /\ [C22_Polled' EXCEPT !.id = peer.id] = peer
              /\ peer' = [C22_Polled EXCEPT !.id = peer'.id]]_vars
    /\ [][peer'.id = peer.id => Next]_vars

\* C22 witness: both cursors have returned a page and are in the middle of
\* their next call at different awaits, with different buffers and tokens.
C22_Witness ==
    /\ peer.id # 0
    /\ ok_pages = 1 /\ peer.ok_pages = 1
    /\ pc = "text" /\ peer.pc = "send"
    /\ payload # peer.payload
    /\ next # peer.next

\* The step of Pages::next that executes max_page_count -= 1: the body of a
\* 200 was read and decoded into a page with a token.
C23_Decrements == pc = "text" /\ outcome' = "page" /\ lastPageToken' # None

\* C23: the decrement is only executed with max_page_count >= 1, and leaves
\* one less; the call never panics and the budget never wraps below zero.
C23_NoUnderflow ==
    /\ [][C23_Decrements =>
              /\ options.max_page_count >= 1
              /\ options'.max_page_count = options.max_page_count - 1]_vars
    /\ [](pc # "panicked" /\ options.max_page_count >= 0)

\* C23 witness: the decrement was executed at a budget of exactly one, after
\* a call that was dropped or failed had left the budget alone.
C23_Witness ==
    /\ pc = "idle" /\ outcome = "page" /\ lastPageToken # None
    /\ pre.max_page_count = 1 /\ options.max_page_count = 0
    /\ prevOutcome \in {"abandoned", "transport", "parse"}

\* C24: a call that ends in a transport failure, a 400 or an unexpected
\* status leaves the buffer and the stored token as they were when it began;
\* the buffer is written only in the step that has read the body of a 200,
\* and the token only in a step that returns a page.
C24_FailuresLeaveBufferAndToken ==
    /\ [](outcome \in {"transport", "status", "rejected", "undecoded"} =>
              (payload = pre.payload /\ next = pre.next))
    /\ [][payload' # payload => (pc = "text" /\ resp.status = 200 /\ payload' = resp.body)]_vars
    /\ [][next' # next => (pc = "text" /\ resp.status = 200 /\ outcome' = "page")]_vars

\* C24 witness: a cursor holding a page and a token had a call rejected with
\* a 400 right after a call that ended in an unexpected status.
C24_Witness ==
    /\ pc = "idle" /\ outcome = "rejected" /\ prevOutcome = "status"
    /\ next # None /\ payload # EmptyPayload
    /\ payload = pre.payload /\ next = pre.next

\* C25: every error a call returns has kind BadInput exactly if its source is
\* a BadInputError; into_bad_input_error gives that BadInputError for an
\* error of kind BadInput and panics for an error of any other kind.
C25_BadInputIffBadInputError ==
    /\ result.tag = "Err" =>
           (result.err.kind = "BadInput" <=> result.err.source.type = "BadInputError")
    /\ result.tag = "Consumed" =>
           IF result.err.kind = "BadInput"
           THEN result.bad_input_error = [tag |-> "Ok", value |-> result.err.source]
           ELSE result.bad_input_error = [tag |-> "Panic"]

\* C25 witness: the error of a rejected search was taken apart, after a call
\* whose error was of another kind.
C25_Witness ==
    /\ result.tag = "Consumed" /\ outcome = "rejected" /\ prevOutcome = "status"
    /\ result.err.kind = "BadInput"
    /\ result.bad_input_error.tag = "Ok"
    /\ result.bad_input_error.value.code = "INVALID_QUERY.NO_TERM"

\* The seven modifiers of an option set, without page size and budget.
C26_ModifiersOf(o) == [i \in DOMAIN C18_Modifiers |-> o[C18_Modifiers[i][1]]]

\* C26: to_flags is injective on the modifiers: the options of the cursor and
\* any other option set give the same flag string exactly if they agree on
\* all seven modifiers.
C26_ToFlagsInjective ==
    \A o \in AllOptions :
        to_flags(options) = to_flags(o) <=> C26_ModifiersOf(options) = C26_ModifiersOf(o)

\* C26 witness: a request in flight carries the flags csrtrn, which no option
\* set with other modifiers gives, the one with ri in place of rt included.
C26_Witness ==
    /\ pc = "send"
    /\ Len(lastReq.params) = 3
    /\ lastReq.params[3] = <<"flags", "csrtrn">>
    /\ \E o \in AllOptions :
           /\ o.dont_interpret_query_operators /\ ~o.dont_tokenize_query_terms
           /\ to_flags(o) = "csrirn"
    /\ Cardinality({C26_ModifiersOf(o) : o \in {p \in AllOptions : to_flags(p) = "csrtrn"}}) = 1

====
